---------------------------- MODULE Spec2Model ----------------------------
(***************************************************************************)
(* State-machine model of ffn/training/model.py: ModelInfo and the        *)
(* FFNModel base class (construction, shape binding, loss and optimizer   *)
(* wiring, the diagnostic-image list and the seed-update geometry).       *)
(*                                                                         *)
(* Numbers that are floats in the program (gradient entries, the          *)
(* clipping magnitude) are modelled in tenths: 7 stands for 0.7.          *)
(***************************************************************************)
EXTENDS Integers, Sequences, FiniteSets, TLC

(***************************************************************************)
(* Bounds of the model.                                                    *)
(***************************************************************************)
MaxDelta == 2
MaxSize == 3
MaxBatch == 2
MaxGrad == 2
MaxSteps == 2
MaxImages == 2

(***************************************************************************)
(* Python values.                                                          *)
(***************************************************************************)
\* An attribute that may be None holds a sequence: <<>> for None, <<v>> for v.
None == <<>>

Some(v) == <<v>>

Val(o) == o[1]

\* max_gradient_entry_mag=0.7, in tenths
DefaultMaxGradientEntryMag == 7

VARIABLES
  dim,            \* class attribute FFNModel.dim, set by the subclass
  constructed,    \* whether __init__ has returned normally
  info,           \* ModelInfo
  batch_size,
  shifts,
  global_step,    \* self.global_step: a reference to the graph's step variable
                  \* (None: the attribute was never assigned)
  input_seed,     \* placeholder 'seed': its static shape (None: unknown)
  input_patches,  \* placeholder 'patches': its static shape (None: unknown)
  labels,
  loss_weights,
  logits,
  loss,
  opt,            \* self.opt (None: the attribute was never assigned)
  train_op,
  _images,        \* images shown in the summaries
  summaries,      \* the graph's summary ops (tf.summary.*)
  update_ops,     \* the graph's tf.GraphKeys.UPDATE_OPS collection
  errors,         \* messages written by tf.logging.error
  call,           \* the last call made on the model and the exception it raised
  ret,            \* the value returned by the last update_seed
  step_value,     \* run-time value of the graph's global step variable
  run,            \* the session's execution of train_op
  steps_completed \* number of executions of train_op that ran to the end

vars == <<dim, constructed, info, batch_size, shifts, global_step, input_seed,
          input_patches, labels, loss_weights, logits, loss, opt, train_op,
          _images, summaries, update_ops, errors, call, ret, step_value, run,
          steps_completed>>

modelVars == <<info, batch_size, shifts, global_step, input_seed, input_patches,
               labels, loss_weights, logits, loss, opt, train_op, _images>>

graphVars == <<summaries, update_ops, errors>>

runVars == <<step_value, run, steps_completed>>

(***************************************************************************)
(* ModelInfo                                                               *)
(***************************************************************************)
ModelInfo(deltas, pred_mask_size, input_seed_size, input_image_size) ==
  [deltas |-> deltas, pred_mask_size |-> pred_mask_size,
   input_seed_size |-> input_seed_size, input_image_size |-> input_image_size,
   additive |-> FALSE]

\* arr[::-1] of a 3-vector
Reversed(v) == [i \in 1..Len(v) |-> v[Len(v) + 1 - i]]

\* a call on the model: the method, its arguments, the exception it raised
Call(name, args, raised) == [name |-> name, args |-> args, raised |-> raised]

(***************************************************************************)
(* FFNModel.__init__                                                       *)
(***************************************************************************)
\* the tuple (-d, 0, d) a loop of __init__ runs over
ShiftAxis(d) == <<0 - d, 0, d>>

\* the 27 (dx, dy, dz) the nested loops visit, dx outermost, in visiting order
LoopOrder(deltas) ==
  [n \in 1..27 |->
     <<ShiftAxis(deltas[1])[((n - 1) \div 9) + 1],
       ShiftAxis(deltas[2])[(((n - 1) \div 3) % 3) + 1],
       ShiftAxis(deltas[3])[((n - 1) % 3) + 1]>>]

\* the skip test written with `or`
SkipShift_Mut(s) == s[1] = 0 \/ s[2] = 0 \/ s[3] = 0

\* `if dx == 0 and dy == 0 and dz == 0: continue`
SkipShift(s) == s[1] = 0 /\ s[2] = 0 /\ s[3] = 0

KeepShift(s) == ~SkipShift(s)

BuildShifts(deltas) == SelectSeq(LoopOrder(deltas), KeepShift)

\* tf.placeholder(tf.float32, name=...): no static shape
Placeholder == None

\* tf.train.get_or_create_global_step(): the graph's one step variable
get_or_create_global_step == Some("global_step")

FFNModel_init(bs, define_global_step) ==
  /\ ~constructed
  /\ call.name = "none"
  /\ IF dim = None
       THEN \* assert self.dim is not None
            /\ call' = Call("__init__", <<bs, define_global_step>>, Some("AssertionError"))
            /\ UNCHANGED <<constructed, modelVars>>
       ELSE /\ constructed' = TRUE
            /\ batch_size' = bs
            /\ shifts' = BuildShifts(info.deltas)
            /\ global_step' = IF define_global_step THEN get_or_create_global_step ELSE None
            /\ input_seed' = Placeholder
            /\ input_patches' = Placeholder
            /\ labels' = None
            /\ loss_weights' = None
            /\ logits' = None
            /\ _images' = <<>>
            /\ call' = Call("__init__", <<bs, define_global_step>>, None)
            /\ UNCHANGED <<info, loss, opt, train_op>>
  /\ UNCHANGED <<dim, graphVars, ret, runVars>>

BatchSizes == {None} \cup {Some(n) : n \in 1..MaxBatch}

Construct == \E bs \in BatchSizes, dgs \in BOOLEAN : FFNModel_init(bs, dgs)

(***************************************************************************)
(* The driver builds the whole graph before its session runs train_op (the *)
(* training session finalizes the graph): the calls below are made while   *)
(* no execution has started.                                               *)
(***************************************************************************)
GraphOpen == run.op = None

(***************************************************************************)
(* Attributes the training driver assigns before the loss is set up.       *)
(***************************************************************************)
AssignLabels(v) ==
  /\ constructed
  /\ GraphOpen
  /\ labels' = v
  /\ UNCHANGED <<dim, constructed, info, batch_size, shifts, global_step, input_seed,
                 input_patches, loss_weights, logits, loss, opt, train_op, _images,
                 graphVars, call, ret, runVars>>

AssignLossWeights(v) ==
  /\ constructed
  /\ GraphOpen
  /\ loss_weights' = v
  /\ UNCHANGED <<dim, constructed, info, batch_size, shifts, global_step, input_seed,
                 input_patches, labels, logits, loss, opt, train_op, _images,
                 graphVars, call, ret, runVars>>

(***************************************************************************)
(* FFNModel.set_input_shapes                                               *)
(***************************************************************************)
\* the size vector taken as stored, not reversed
ShapeList_Mut(bs, size) ==
  <<bs>> \o [i \in 1..3 |-> Some(size[i])] \o <<Some(1)>>

\* [self.batch_size] + list(size[::-1]) + [1]; a dimension is None or Some(n)
ShapeList(bs, size) ==
  <<bs>> \o [i \in 1..3 |-> Some(Reversed(size)[i])] \o <<Some(1)>>

\* Tensor.set_shape merges the new shape into the static shape and raises
\* ValueError when the two are incompatible
ShapesCompatible(cur, shape) ==
  \/ cur = None
  \/ /\ Len(Val(cur)) = Len(shape)
     /\ \A i \in 1..Len(shape) :
          Val(cur)[i] = None \/ shape[i] = None \/ Val(cur)[i] = shape[i]

set_shape(cur, shape) ==
  IF cur = None
    THEN Some(shape)
    ELSE Some([i \in 1..Len(shape) |-> IF Val(cur)[i] = None THEN shape[i] ELSE Val(cur)[i]])

set_input_shapes ==
  /\ constructed
  /\ GraphOpen
  /\ LET seed_shape == ShapeList(batch_size, info.input_seed_size)
         patches_shape == ShapeList(batch_size, info.input_image_size)
     IN IF ~ShapesCompatible(input_seed, seed_shape)
          THEN /\ call' = Call("set_input_shapes", <<>>, Some("ValueError"))
               /\ UNCHANGED <<input_seed, input_patches>>
          ELSE /\ input_seed' = set_shape(input_seed, seed_shape)
               /\ IF ~ShapesCompatible(input_patches, patches_shape)
                    THEN /\ call' = Call("set_input_shapes", <<>>, Some("ValueError"))
                         /\ UNCHANGED input_patches
                    ELSE /\ input_patches' = set_shape(input_patches, patches_shape)
                         /\ call' = Call("set_input_shapes", <<>>, None)
  /\ UNCHANGED <<dim, constructed, info, batch_size, shifts, global_step, labels,
                 loss_weights, logits, loss, opt, train_op, _images, graphVars, ret,
                 runVars>>

(***************************************************************************)
(* FFNModel.set_up_sigmoid_pixelwise_loss                                  *)
(* A graph tensor is the sequence of the names of the ops that compute it. *)
(***************************************************************************)
Summary(kind, tag, value) == [kind |-> kind, tag |-> tag, value |-> value]

\* reduce_mean(sigmoid_cross_entropy_with_logits(logits, labels) * loss_weights)
pixel_loss(lg) ==
  <<"reduce_mean", "mul", "sigmoid_cross_entropy_with_logits", lg>> \o labels
    \o loss_weights

verify_tensor_all_finite(t, msg) == <<"verify_tensor_all_finite", msg>> \o t

\* only the labels asserted
LossAssertionFails_Mut == labels = None

\* assert self.labels is not None; assert self.loss_weights is not None
LossAssertionFails == labels = None \/ loss_weights = None

set_up_sigmoid_pixelwise_loss(lg) ==
  /\ constructed
  /\ GraphOpen
  /\ IF LossAssertionFails
       THEN \* AssertionError
            /\ call' = Call("set_up_sigmoid_pixelwise_loss", <<lg>>, Some("AssertionError"))
            /\ UNCHANGED <<loss, summaries>>
       ELSE /\ summaries' = summaries \cup {Summary("scalar", <<"pixel_loss">>, pixel_loss(lg))}
            /\ loss' = Some(verify_tensor_all_finite(pixel_loss(lg), "Invalid loss detected"))
            /\ call' = Call("set_up_sigmoid_pixelwise_loss", <<lg>>, None)
  /\ UNCHANGED <<dim, constructed, info, batch_size, shifts, global_step, input_seed,
                 input_patches, labels, loss_weights, logits, opt, train_op, _images,
                 update_ops, errors, ret, runVars>>

(***************************************************************************)
(* FFNModel.set_up_optimizer                                               *)
(***************************************************************************)
\* tf.trainable_variables(), in order
TrainableVars == <<"v1", "v2">>

VarNames == {TrainableVars[i] : i \in 1..Len(TrainableVars)}

\* optimizer.optimizer_from_flags()
optimizer_from_flags == Some("optimizer")

\* opt.compute_gradients(loss): a (gradient, variable) pair per trainable variable;
\* the gradient is None for a variable the loss does not depend on (nograd)
compute_gradients(l, nograd) ==
  [i \in 1..Len(TrainableVars) |->
     [g |-> IF TrainableVars[i] \in nograd
              THEN None
              ELSE Some([loss |-> l, wrt |-> TrainableVars[i], clip |-> None]),
      v |-> TrainableVars[i]]]

\* tf.clip_by_value(t, lo, hi) of a tensor t
clip_by_value(t, lo, hi) == [t EXCEPT !.clip = Some(<<lo, hi>>)]

\* the list comprehension of set_up_optimizer; tf.clip_by_value(None, ...) raises
ClippedGradients(grads_and_vars, mag) ==
  [i \in 1..Len(grads_and_vars) |->
     [g |-> Some(clip_by_value(Val(grads_and_vars[i].g), 0 - mag, mag)),
      v |-> grads_and_vars[i].v]]

HasNoneGradient(grads_and_vars) ==
  \E i \in 1..Len(grads_and_vars) : grads_and_vars[i].g = None

\* index of the first pair whose gradient is None (Len + 1 when there is none)
FirstNone(grads_and_vars) ==
  IF HasNoneGradient(grads_and_vars)
    THEN CHOOSE i \in 1..Len(grads_and_vars) :
           /\ grads_and_vars[i].g = None
           /\ \A j \in 1..(i - 1) : grads_and_vars[j].g # None
    ELSE Len(grads_and_vars) + 1

\* tf.summary.histogram(var.name.replace(':0', ''), var) for every trainable
VariableHistograms ==
  {Summary("histogram", <<v>>, <<v>>) : v \in VarNames}

\* tf.summary.histogram('gradients/%s' % ..., grad) for the first n pairs
GradientHistograms(grads_and_vars, n) ==
  {Summary("histogram", <<"gradients", grads_and_vars[i].v>>,
           <<"gradient", grads_and_vars[i].v>>) : i \in 1..n}

\* apply_gradients called outside the `with` block
control_dependencies_Mut(ops) == {}

\* what `with tf.control_dependencies(update_ops)` gives the ops created in it
control_dependencies(ops) == ops

\* opt.apply_gradients(grads_and_vars, global_step=..., name='train')
apply_gradients(grads_and_vars, gs, deps) ==
  [name |-> "train", grads_and_vars |-> grads_and_vars, global_step |-> gs,
   control_inputs |-> deps]

\* the loss whose gradients are computed
OptimizedLoss(loss_arg) == IF loss_arg = None THEN loss ELSE loss_arg

\* the loss recorded by tf.summary.scalar('optimizer_loss', ...)
RecordedLoss(loss_arg) == loss

\* the test written as the truth value of the magnitude
ClippingEnabled_Mut(mag) == mag # 0

\* whether clipping is applied
ClippingEnabled(mag) == mag > 0

\* the global_step argument of apply_gradients
StepArgument == global_step

set_up_optimizer(loss_arg, mag, nograd) ==
  /\ constructed
  /\ GraphOpen
  /\ LET args == <<loss_arg, mag, nograd>>
         recorded == RecordedLoss(loss_arg)
         s1 == summaries \cup {Summary("scalar", <<"optimizer_loss">>, Val(recorded))}
         raw == compute_gradients(Val(OptimizedLoss(loss_arg)), nograd)
         logged == errors \cup {<<"Gradient is None: %s", v>> : v \in nograd}
         grads_and_vars == IF ClippingEnabled(mag) THEN ClippedGradients(raw, mag) ELSE raw
     IN IF recorded = None
          THEN \* tf.summary.scalar(..., None) raises
               /\ call' = Call("set_up_optimizer", args, Some("ValueError"))
               /\ UNCHANGED <<opt, train_op, summaries, errors>>
          ELSE IF OptimizedLoss(loss_arg) = None
          THEN \* opt.compute_gradients(None) raises
               /\ opt' = optimizer_from_flags
               /\ summaries' = s1
               /\ call' = Call("set_up_optimizer", args, Some("ValueError"))
               /\ UNCHANGED <<train_op, errors>>
          ELSE /\ opt' = optimizer_from_flags
               /\ errors' = logged
               /\ IF ClippingEnabled(mag) /\ HasNoneGradient(raw)
                    THEN \* tf.clip_by_value(None, ...) raises
                         /\ summaries' = s1
                         /\ call' = Call("set_up_optimizer", args, Some("ValueError"))
                         /\ UNCHANGED train_op
                    ELSE IF HasNoneGradient(grads_and_vars)
                    THEN \* tf.summary.histogram(..., None) raises
                         /\ summaries' = s1 \cup VariableHistograms \cup
                              GradientHistograms(grads_and_vars, FirstNone(grads_and_vars) - 1)
                         /\ call' = Call("set_up_optimizer", args, Some("ValueError"))
                         /\ UNCHANGED train_op
                    ELSE IF global_step = None
                    THEN \* self.global_step was never assigned
                         /\ summaries' = s1 \cup VariableHistograms \cup
                              GradientHistograms(grads_and_vars, Len(grads_and_vars))
                         /\ call' = Call("set_up_optimizer", args, Some("AttributeError"))
                         /\ UNCHANGED train_op
                    ELSE /\ summaries' = s1 \cup VariableHistograms \cup
                              GradientHistograms(grads_and_vars, Len(grads_and_vars))
                         /\ train_op' = Some(apply_gradients(grads_and_vars, StepArgument,
                                                             control_dependencies(update_ops)))
                         /\ call' = Call("set_up_optimizer", args, None)
  /\ UNCHANGED <<dim, constructed, info, batch_size, shifts, global_step, input_seed,
                 input_patches, labels, loss_weights, logits, loss, _images, update_ops,
                 ret, runVars>>

(***************************************************************************)
(* FFNModel.show_center_slice, add_summaries, define_tf_graph              *)
(***************************************************************************)
\* image[:, image.get_shape().dims[1] // 2, :, :, :] of a 5-D image
CenterSlice(image) ==
  [of |-> image.name, index |-> Val(image.shape[2]) \div 2,
   shape |-> <<image.shape[1], image.shape[3], image.shape[4], image.shape[5]>>,
   sigmoid |-> FALSE]

tf_sigmoid(t) == [t EXCEPT !.sigmoid = TRUE]

\* self._images.insert(0, image)
AppendImage_Mut(list, image) == <<image>> \o list

\* self._images.append(image)
AppendImage(list, image) == Append(list, image)

show_center_slice(image, sigmoid) ==
  /\ constructed
  /\ GraphOpen
  /\ Len(_images) < MaxImages
  /\ _images' = AppendImage(_images, IF sigmoid THEN tf_sigmoid(CenterSlice(image))
                                              ELSE CenterSlice(image))
  /\ call' = Call("show_center_slice", <<image, sigmoid>>, None)
  /\ UNCHANGED <<dim, constructed, info, batch_size, shifts, global_step, input_seed,
                 input_patches, labels, loss_weights, logits, loss, opt, train_op,
                 graphVars, ret, runVars>>

add_summaries ==
  /\ constructed
  /\ GraphOpen
  /\ call' = Call("add_summaries", <<>>, None)
  /\ UNCHANGED <<dim, constructed, modelVars, graphVars, ret, runVars>>

define_tf_graph ==
  /\ constructed
  /\ GraphOpen
  /\ call' = Call("define_tf_graph", <<>>, Some("NotImplementedError"))
  /\ UNCHANGED <<dim, constructed, modelVars, graphVars, ret, runVars>>

(***************************************************************************)
(* The graph and the session: update ops registered by the layers of a     *)
(* subclass, and one execution of train_op.                                *)
(***************************************************************************)
AddUpdateOp(u) ==
  /\ constructed
  /\ GraphOpen
  /\ u \notin update_ops
  /\ update_ops' = update_ops \cup {u}
  /\ UNCHANGED <<dim, constructed, modelVars, summaries, errors, call, ret, runVars>>

IdleRun == [pc |-> "idle", op |-> None, raw |-> None, executed |-> {}, applied |-> None]

Min(a, b) == IF a <= b THEN a ELSE b

Max(a, b) == IF a >= b THEN a ELSE b

\* run-time value of a gradient tensor, given the raw gradients of this step
GradientValue(g, raw) ==
  IF g.clip = None
    THEN raw[g.wrt]
    ELSE [i \in 1..Len(raw[g.wrt]) |->
            Max(Min(raw[g.wrt][i], Val(g.clip)[2]), Val(g.clip)[1])]

\* session.run(train_op) starts: the raw gradients of this step are computed
StartTrainStep(raw) ==
  /\ train_op # None
  /\ run.pc = "idle"
  /\ steps_completed < MaxSteps
  /\ run' = [pc |-> "running", op |-> train_op, raw |-> Some(raw), executed |-> {},
             applied |-> None]
  /\ UNCHANGED <<dim, constructed, modelVars, graphVars, call, ret, step_value,
                 steps_completed>>

\* an op train_op has a control dependency on runs
RunUpdateOp(u) ==
  /\ run.pc = "running"
  /\ u \in Val(run.op).control_inputs \ run.executed
  /\ run' = [run EXCEPT !.executed = @ \cup {u}]
  /\ UNCHANGED <<dim, constructed, modelVars, graphVars, call, ret, step_value,
                 steps_completed>>

\* the op made by apply_gradients runs once its control inputs have run: it
\* applies the gradients and increments the global step it was given
ApplyGradients ==
  /\ run.pc = "running"
  /\ Val(run.op).control_inputs \subseteq run.executed
  /\ LET gv == Val(run.op).grads_and_vars
     IN run' = [run EXCEPT !.pc = "idle",
                           !.applied = Some([i \in 1..Len(gv) |->
                                               GradientValue(Val(gv[i].g), Val(run.raw))])]
  /\ step_value' = IF Val(run.op).global_step = None THEN step_value ELSE step_value + 1
  /\ steps_completed' = steps_completed + 1
  /\ UNCHANGED <<dim, constructed, modelVars, graphVars, call, ret>>

(***************************************************************************)
(* Initial states: a subclass (its dim) and a ModelInfo, before the       *)
(* constructor runs.  loss and train_op are class attributes (None).      *)
(***************************************************************************)
Dims == {None, Some(2), Some(3)}

InitWith(Infos, SubclassDims) ==
  /\ dim \in SubclassDims
  /\ constructed = FALSE
  /\ info \in Infos
  /\ batch_size = None
  /\ shifts = <<>>
  /\ global_step = None
  /\ input_seed = None
  /\ input_patches = None
  /\ labels = None
  /\ loss_weights = None
  /\ logits = None
  /\ loss = None
  /\ opt = None
  /\ train_op = None
  /\ _images = <<>>
  /\ summaries = {}
  /\ update_ops = {}
  /\ errors = {}
  /\ call = Call("none", <<>>, None)
  /\ ret = None
  /\ step_value = 0
  /\ run = IdleRun
  /\ steps_completed = 0

(***************************************************************************)
(* Tensors: a shape (batch, z, y, x, channel) and a value per index.       *)
(* Indices are 1-based.                                                    *)
(***************************************************************************)
Indices(shape) ==
  {<<b, z, y, x, c>> : b \in 1..shape[1], z \in 1..shape[2], y \in 1..shape[3],
                       x \in 1..shape[4], c \in 1..shape[5]}

Tensor(shape, f(_)) == [shape |-> shape, data |-> [idx \in Indices(shape) |-> f(idx)]]

\* tf.pad(t, paddings), mode CONSTANT with value 0; paddings[i] = <<before, after>>
tf_pad(t, paddings) ==
  LET shape == [i \in 1..5 |-> paddings[i][1] + t.shape[i] + paddings[i][2]]
      inside(idx) == \A i \in 1..5 : /\ idx[i] > paddings[i][1]
                                     /\ idx[i] <= paddings[i][1] + t.shape[i]
      cell(idx) == IF inside(idx)
                     THEN t.data[[i \in 1..5 |-> idx[i] - paddings[i][1]]]
                     ELSE 0
  IN Tensor(shape, cell)

\* tf.pad rejects a negative padding when the graph is built
PadAccepts(paddings) == \A i \in 1..5 : paddings[i][1] >= 0 /\ paddings[i][2] >= 0

\* whether a + b is defined: each pair of extents is equal or has a 1 (broadcasting)
Broadcastable(a, b) ==
  \A i \in 1..5 : a.shape[i] = b.shape[i] \/ a.shape[i] = 1 \/ b.shape[i] = 1

\* a + b elementwise, with broadcasting
tf_add(a, b) ==
  LET shape == [i \in 1..5 |-> IF a.shape[i] >= b.shape[i] THEN a.shape[i] ELSE b.shape[i]]
      at(t, idx) == t.data[[i \in 1..5 |-> IF t.shape[i] = 1 THEN 1 ELSE idx[i]]]
      cell(idx) == at(a, idx) + at(b, idx)
  IN Tensor(shape, cell)

(***************************************************************************)
(* FFNModel.update_seed                                                    *)
(***************************************************************************)
SeedDelta(axis) == info.input_seed_size[axis] - info.pred_mask_size[axis]

\* the paddings listed in the (x, y, z) order of the size vectors
SeedPaddings_Mut(dx, dy, dz) ==
  <<<<0, 0>>,
    <<dx \div 2, dx - dx \div 2>>,
    <<dy \div 2, dy - dy \div 2>>,
    <<dz \div 2, dz - dz \div 2>>,
    <<0, 0>>>>

\* the paddings list of update_seed: batch, z, y, x, channel
SeedPaddings(dx, dy, dz) ==
  <<<<0, 0>>,
    <<dz \div 2, dz - dz \div 2>>,
    <<dy \div 2, dy - dy \div 2>>,
    <<dx \div 2, dx - dx \div 2>>,
    <<0, 0>>>>

\* what `seed += ...` adds to the seed: the update itself, or the padded update
\* (None when tf.pad raises)
SeedIncrement(update) ==
  LET dx == SeedDelta(1)
      dy == SeedDelta(2)
      dz == SeedDelta(3)
  IN IF dx = 0 /\ dy = 0 /\ dz = 0
       THEN Some(update)
       ELSE IF PadAccepts(SeedPaddings(dx, dy, dz))
              THEN Some(tf_pad(update, SeedPaddings(dx, dy, dz)))
              ELSE None

\* `seed = increment`
SeedPlus_Mut(seed, increment) == increment

\* `seed += increment`
SeedPlus(seed, increment) == tf_add(seed, increment)

update_seed(seed, update) ==
  /\ constructed
  /\ GraphOpen
  /\ LET inc == SeedIncrement(update)
     IN IF inc # None /\ Broadcastable(seed, Val(inc))
          THEN /\ ret' = Some(SeedPlus(seed, Val(inc)))
               /\ call' = Call("update_seed", <<seed, update>>, None)
          ELSE /\ ret' = None
               /\ call' = Call("update_seed", <<seed, update>>, Some("ValueError"))
  /\ UNCHANGED <<dim, constructed, modelVars, graphVars, runVars>>

\* The drivers' arguments: a seed of the seed size and an update of the predicted
\* size, both stored (batch, z, y, x, 1).
VolumeShape(b, size) == <<b>> \o Reversed(size) \o <<1>>

LinearIndex(idx, shape) ==
  (((idx[1] - 1) * shape[2] + (idx[2] - 1)) * shape[3] + (idx[3] - 1)) * shape[4] + idx[4]

SeedArg(b, sv) ==
  LET shape == VolumeShape(b, info.input_seed_size)
      cell(idx) == sv + ((idx[2] + idx[3] + idx[4]) % 2)
  IN Tensor(shape, cell)

UpdateArg(b, uv) ==
  LET shape == VolumeShape(b, info.pred_mask_size)
      cell(idx) == uv + LinearIndex(idx, shape)
  IN Tensor(shape, cell)

\* the batch extent of the tensors fed: the static batch size, or 1 when dynamic
BatchExtent == IF batch_size = None THEN 1 ELSE Val(batch_size)

UpdateSeed ==
  \E sv \in {0, 1} : update_seed(SeedArg(BatchExtent, sv), UpdateArg(BatchExtent, 1))

(***************************************************************************)
(* Specification of the calls a driver makes on one model.                 *)
(***************************************************************************)
LifecycleInfos ==
  {ModelInfo(<<1, 1, 1>>, <<1, 1, 1>>, <<2, 1, 1>>, <<2, 1, 2>>),
   ModelInfo(<<1, 2, 0>>, <<1, 2, 1>>, <<1, 2, 1>>, <<2, 2, 1>>)}

LossOverrides == {None, Some(<<"total_loss">>)}

\* the images the subclasses show: the logits through a sigmoid, the labels as is
ShownImages ==
  {<<[name |-> "logits", shape |-> ShapeList(batch_size, info.pred_mask_size)], TRUE>>,
   <<[name |-> "labels", shape |-> ShapeList(batch_size, info.pred_mask_size)], FALSE>>}

Init == InitWith(LifecycleInfos, {None, Some(3)})

Next ==
  \/ \E bs \in {None, Some(MaxBatch)}, dgs \in BOOLEAN : FFNModel_init(bs, dgs)
  \/ \E v \in {None, Some("labels")} : AssignLabels(v)
  \/ \E v \in {None, Some("loss_weights")} : AssignLossWeights(v)
  \/ set_input_shapes
  \/ set_up_sigmoid_pixelwise_loss("logits")
  \/ \E la \in LossOverrides : set_up_optimizer(la, DefaultMaxGradientEntryMag, {})
  \/ \E a \in ShownImages : show_center_slice(a[1], a[2])
  \/ add_summaries
  \/ define_tf_graph
  \/ update_seed(SeedArg(BatchExtent, 0), UpdateArg(BatchExtent, 1))

Spec == Init /\ [][Next]_vars

(***************************************************************************)
(* Specification of training: the graph is set up, then train_op is run.   *)
(***************************************************************************)
TrainInfos == {ModelInfo(<<1, 1, 1>>, <<1, 1, 1>>, <<1, 1, 1>>, <<1, 1, 1>>)}

\* clipping magnitudes, in tenths: disabled (negative, zero), 0.5 and the default
Magnitudes == {0 - 5, 0, 5, DefaultMaxGradientEntryMag}

\* run-time gradient entries, in tenths
GradEntries == {5 * k : k \in (0 - MaxGrad)..MaxGrad}

RawGradients == [VarNames -> {<<e>> : e \in GradEntries}]

UpdateOpNames == <<"bn1", "bn2">>

\* the layers register their update ops in order
NextUpdateOp == UpdateOpNames[Cardinality(update_ops) + 1]

InitTrain == InitWith(TrainInfos, {Some(3)})

NextTrain ==
  \/ \E dgs \in BOOLEAN : FFNModel_init(None, dgs)
  \/ AssignLabels(Some("labels"))
  \/ AssignLossWeights(Some("loss_weights"))
  \/ set_up_sigmoid_pixelwise_loss("logits")
  \/ \E m \in Magnitudes, ng \in SUBSET {"v2"} : set_up_optimizer(None, m, ng)
  \/ (Cardinality(update_ops) < Len(UpdateOpNames) /\ AddUpdateOp(NextUpdateOp))
  \/ \E raw \in RawGradients : StartTrainStep(raw)
  \/ \E u \in update_ops : RunUpdateOp(u)
  \/ ApplyGradients

SpecTrain == InitTrain /\ [][NextTrain]_vars

(***************************************************************************)
(* Specification of the constructor over a cube of deltas.                 *)
(***************************************************************************)
Deltas == (0 - MaxDelta)..MaxDelta

ShiftInfos ==
  {ModelInfo(<<a, b, c>>, <<1, 1, 1>>, <<1, 1, 1>>, <<1, 1, 1>>) :
     a \in Deltas, b \in Deltas, c \in Deltas}

InitShifts == InitWith(ShiftInfos, Dims)

NextShifts == Construct

SpecShifts == InitShifts /\ [][NextShifts]_vars

\* C1: for deltas (a,b,c) all non-zero, the constructor's shifts list has exactly
\* 26 elements, pairwise distinct, none (0,0,0), each (dx,dy,dz) with
\* dx in {-a,0,a}, dy in {-b,0,b}, dz in {-c,0,c}.
NonZeroDeltas ==
  info.deltas[1] # 0 /\ info.deltas[2] # 0 /\ info.deltas[3] # 0

C1_Shifts ==
  (constructed /\ NonZeroDeltas) =>
    /\ Len(shifts) = 26
    /\ \A i, j \in 1..Len(shifts) : i # j => shifts[i] # shifts[j]
    /\ \A i \in 1..Len(shifts) :
         /\ shifts[i] # <<0, 0, 0>>
         /\ shifts[i][1] \in {0 - info.deltas[1], 0, info.deltas[1]}
         /\ shifts[i][2] \in {0 - info.deltas[2], 0, info.deltas[2]}
         /\ shifts[i][3] \in {0 - info.deltas[3], 0, info.deltas[3]}

C1_Witness ==
  /\ constructed
  /\ info.deltas = <<2, 0 - 1, 1>>
  /\ Len(shifts) = 26
  /\ shifts[1] = <<0 - 2, 1, 0 - 1>>


(***************************************************************************)
(* Specification of update_seed over the seed and prediction sizes with    *)
(* input_seed_size >= pred_mask_size on every axis.                        *)
(***************************************************************************)
Sizes == 1..MaxSize

SizeVectors == Sizes \X Sizes \X Sizes

SeedInfos ==
  {ModelInfo(<<1, 1, 1>>, q[1], q[2], q[2]) :
     q \in {r \in SizeVectors \X SizeVectors : \A a \in 1..3 : r[2][a] >= r[1][a]}}

InitSeed == InitWith(SeedInfos, {Some(3)})

NextSeed ==
  \/ \E bs \in {None, Some(MaxBatch)} : FFNModel_init(bs, TRUE)
  \/ UpdateSeed

SpecSeed == InitSeed /\ [][NextSeed]_vars

C6_InputShapes ==
  [][set_input_shapes =>
       /\ call'.raised = None
       /\ input_seed' = Some(<<batch_size, Some(info.input_seed_size[3]),
                               Some(info.input_seed_size[2]),
                               Some(info.input_seed_size[1]), Some(1)>>)
       /\ input_patches' = Some(<<batch_size, Some(info.input_image_size[3]),
                                  Some(info.input_image_size[2]),
                                  Some(info.input_image_size[1]), Some(1)>>)
       /\ UNCHANGED <<dim, constructed, info, batch_size, shifts, global_step, labels,
                      loss_weights, logits, loss, opt, train_op, _images, summaries,
                      update_ops, errors>>]_vars

C6_Witness ==
  /\ call.name = "set_input_shapes"
  /\ call.raised = None
  /\ batch_size = None
  /\ info.input_seed_size = <<2, 1, 1>>
  /\ input_seed = Some(<<None, Some(1), Some(1), Some(2), Some(1)>>)
  /\ input_patches = Some(<<None, Some(2), Some(1), Some(2), Some(1)>>)

\* C9: set_up_optimizer uses one loss throughout: the override when one is
\* passed, else the model's loss, is both the value recorded as 'optimizer_loss'
\* and the value whose gradients are computed; with an override the call works
\* even when the model's own loss was never set up.
C9_OneLoss ==
  (call.name = "set_up_optimizer" /\ global_step # None) =>
    LET used == IF call.args[1] = None THEN loss ELSE call.args[1]
    IN used # None =>
         /\ call.raised = None
         /\ Summary("scalar", <<"optimizer_loss">>, Val(used)) \in summaries
         /\ train_op # None
         /\ \A i \in 1..Len(TrainableVars) :
              Val(Val(train_op).grads_and_vars[i].g).loss = Val(used)

\* C10: after construction loss and train_op are None and the image list is
\* empty; loss becomes non-None only by a successful
\* set_up_sigmoid_pixelwise_loss and train_op only by a successful
\* set_up_optimizer; the image list only grows, by exactly one entry per
\* show_center_slice call; shifts and info never change after construction.
C10_Lifecycle ==
  [][/\ (~constructed /\ constructed') =>
          (loss' = None /\ train_op' = None /\ _images' = <<>>)
     /\ loss' # loss =>
          /\ call'.name = "set_up_sigmoid_pixelwise_loss"
          /\ call'.raised = None
          /\ loss' # None
     /\ train_op' # train_op =>
          /\ call'.name = "set_up_optimizer"
          /\ call'.raised = None
          /\ train_op' # None
     /\ _images' # _images =>
          /\ call'.name = "show_center_slice"
          /\ Len(_images') = Len(_images) + 1
          /\ SubSeq(_images', 1, Len(_images)) = _images
     /\ (\E a \in ShownImages : show_center_slice(a[1], a[2])) =>
          Len(_images') = Len(_images) + 1
     /\ constructed => (shifts' = shifts /\ info' = info)]_vars

C10_Witness ==
  /\ constructed
  /\ loss # None
  /\ train_op # None
  /\ Len(_images) = 2
  /\ _images[1].of = "labels"
  /\ _images[2].of = "logits"
  /\ call.name = "define_tf_graph"

(***************************************************************************)
(* Properties of training.                                                 *)
(***************************************************************************)
\* C4: with max_gradient_entry_mag = m > 0 every entry of every gradient passed
\* to apply_gradients lies in [-m, m], entries already inside unchanged; with
\* m <= 0 the gradients passed are exactly those compute_gradients returned.
C4_Clipping ==
  (call.name = "set_up_optimizer" /\ call.raised = None /\ run.applied # None) =>
    LET m == call.args[2]
        passed == Val(run.applied)
    IN /\ Len(passed) = Len(TrainableVars)
       /\ \A i \in 1..Len(passed) :
            /\ Len(passed[i]) = Len(Val(run.raw)[TrainableVars[i]])
            /\ \A k \in 1..Len(passed[i]) :
                 LET r == Val(run.raw)[TrainableVars[i]][k]
                     a == passed[i][k]
                 IN IF m > 0
                      THEN /\ a >= 0 - m
                           /\ a <= m
                           /\ (r >= 0 - m /\ r <= m) => a = r
                      ELSE a = r

\* the default 0.7: 1.0 is clipped to 0.7, -0.5 passes unchanged
C4_Witness ==
  /\ call.name = "set_up_optimizer"
  /\ call.raised = None
  /\ call.args[2] = DefaultMaxGradientEntryMag
  /\ run.applied # None
  /\ Val(run.raw)["v1"] = <<10>>
  /\ Val(run.raw)["v2"] = <<0 - 5>>
  /\ Val(run.applied) = <<<<7>>, <<0 - 5>>>>

\* C7: a trainable variable whose gradient is None is only logged: for every
\* max_gradient_entry_mag, set_up_optimizer still completes and sets opt and
\* train_op.
C7_NullGradientOnlyLogged ==
  (/\ call.name = "set_up_optimizer"
   /\ call.args[3] # {}
   /\ loss # None
   /\ global_step # None) =>
    /\ call.raised = None
    /\ opt # None
    /\ train_op # None

\* C8: in every execution of train_op the update ops collected when the
\* optimizer was set up have all run before the gradients are applied, each
\* execution advances the global step by exactly one, and the step counter
\* never decreases and equals the number of completed training steps.
C8_TrainStep ==
  [][/\ train_op' # train_op =>
          Val(train_op').control_inputs = update_ops
     /\ steps_completed' # steps_completed =>
          /\ Val(run.op).control_inputs \subseteq run.executed
          /\ step_value' = step_value + 1
     /\ step_value' >= step_value
     /\ step_value' = steps_completed']_vars

C8_Witness ==
  /\ steps_completed = 2
  /\ step_value = 2
  /\ run.pc = "idle"
  /\ Val(run.op).control_inputs = {"bn1", "bn2"}
  /\ run.executed = {"bn1", "bn2"}

(***************************************************************************)
(* Properties of update_seed.                                              *)
(***************************************************************************)
UpdateSeedCalled == constructed /\ call.name = "update_seed"

SeedNotSmaller == \A a \in 1..3 : SeedDelta(a) >= 0

\* size component (x, y, z = 1, 2, 3) stored on tensor axis 4, 3, 2
SizeAxisOf(tensorAxis) == 5 - tensorAxis

\* cells of padding before the update on a tensor axis, as the claim states them
PadBefore(tensorAxis) ==
  IF tensorAxis \in 2..4 THEN SeedDelta(SizeAxisOf(tensorAxis)) \div 2 ELSE 0

PadAfter(tensorAxis) ==
  IF tensorAxis \in 2..4
    THEN SeedDelta(SizeAxisOf(tensorAxis)) - SeedDelta(SizeAxisOf(tensorAxis)) \div 2
    ELSE 0

InPastedRegion(idx, update) ==
  \A i \in 1..5 : idx[i] > PadBefore(i) /\ idx[i] <= PadBefore(i) + update.shape[i]

\* C2: with input_seed_size >= pred_mask_size on every axis and d > 0 on some axis,
\* the update is pasted with d \div 2 zero cells before and d - d \div 2 after on
\* each axis (x, y, z on tensor axes 4, 3, 2 counted from 1; batch and channel
\* unpadded), the padded extent is input_seed_size, cells outside the pasted
\* region keep the seed's value and cells inside are seed plus update.
C2_PaddedUpdate ==
  (UpdateSeedCalled /\ SeedNotSmaller /\ \E a \in 1..3 : SeedDelta(a) > 0) =>
    LET seed == call.args[1]
        update == call.args[2]
    IN /\ call.raised = None
       /\ ret # None
       /\ Val(ret).shape = seed.shape
       /\ \A i \in 2..4 :
            /\ PadBefore(i) + update.shape[i] + PadAfter(i) = info.input_seed_size[SizeAxisOf(i)]
            /\ Val(ret).shape[i] = info.input_seed_size[SizeAxisOf(i)]
            /\ PadAfter(i) - PadBefore(i) \in {0, 1}
       /\ Val(ret).shape[1] = update.shape[1]
       /\ Val(ret).shape[5] = update.shape[5]
       /\ \A idx \in Indices(seed.shape) :
            Val(ret).data[idx] =
              IF InPastedRegion(idx, update)
                THEN seed.data[idx] + update.data[[i \in 1..5 |-> idx[i] - PadBefore(i)]]
                ELSE seed.data[idx]

\* an odd difference on x (one cell after, none before), an even one on z
C2_Witness ==
  /\ UpdateSeedCalled
  /\ call.raised = None
  /\ info.input_seed_size = <<2, 2, 3>>
  /\ info.pred_mask_size = <<1, 2, 1>>
  /\ ret # None
  /\ Val(ret).shape[1] = 2
  /\ Val(ret).data[<<2, 2, 1, 1, 1>>] = call.args[1].data[<<2, 2, 1, 1, 1>>]
                                          + call.args[2].data[<<2, 1, 1, 1, 1>>]
  /\ Val(ret).data[<<2, 2, 1, 2, 1>>] = call.args[1].data[<<2, 2, 1, 2, 1>>]

\* C3: with input_seed_size = pred_mask_size on all three axes the result is
\* seed + update elementwise, exactly, and the update is added unpadded.
C3_EqualSizes ==
  (UpdateSeedCalled /\ \A a \in 1..3 : SeedDelta(a) = 0) =>
    LET seed == call.args[1]
        update == call.args[2]
    IN /\ call.raised = None
       /\ ret # None
       /\ SeedIncrement(update) = Some(update)
       /\ Val(ret).shape = seed.shape
       /\ \A idx \in Indices(seed.shape) :
            Val(ret).data[idx] = seed.data[idx] + update.data[idx]

C3_Witness ==
  /\ UpdateSeedCalled
  /\ call.raised = None
  /\ info.input_seed_size = <<2, 3, 1>>
  /\ info.pred_mask_size = <<2, 3, 1>>
  /\ ret # None
  /\ Val(ret).shape = <<1, 1, 3, 2, 1>>
  /\ Val(ret).data[<<1, 1, 3, 2, 1>>] = call.args[1].data[<<1, 1, 3, 2, 1>>] + 7

=============================================================================
